---- MODULE Spec2Model ----
(***************************************************************************)
(* Model of src/main.py: the portfolio loader (read_json and               *)
(* check_goal_percentage), the percentage calculator                       *)
(* (calculate_current_percentage), the table builder (create_table), the   *)
(* rebalancing advisor (suggest_action) and the driver (main and           *)
(* plot_pie_chart).                                                        *)
(*                                                                         *)
(* Python numbers.  The JSON numbers of the inputs are integers.  Every    *)
(* "/" of the program is Python's true division and yields a float (an     *)
(* IEEE-754 binary64), and every "*", "+" and "-" that has a float operand *)
(* yields a float; each such operation returns the exact result rounded to *)
(* Precision significant bits, ties to even.  A float is modelled exactly: *)
(* its magnitude is a fixed-point numeral of Limbs digits in base Base     *)
(* (most significant first), with IntLimbs integer digits and FracLimbs    *)
(* fraction digits.  All floats of the modelled runs are multiples of      *)
(* 2^-(FracLimbs*LimbBits) below Base^IntLimbs, so the numerals hold them  *)
(* without loss: sums, differences and products by an integer stay on the  *)
(* grid of their operands, and every non-zero quotient taken (a value by   *)
(* the total, a percentage by 100) is above 2^-7, so that the last bit it  *)
(* keeps is above 2^-60.                                                   *)
(*                                                                         *)
(* Python dicts keep insertion order: a dict is a sequence of              *)
(* <<key, value>> pairs with distinct keys.                                *)
(***************************************************************************)
EXTENDS Integers, Sequences, FiniteSets

(* ------------------------------ bounds -------------------------------- *)

\* The largest number of assets in a mapping of the input.
MaxLen == 2

\* The shape of the fixed-point numerals that hold the floats.
LimbBits == 20
IntLimbs == 1
FracLimbs == 4

\* Asset names; the first MaxLen of them are in use.
AssetPool == <<"BTC", "ETH", "USD", "GOLD">>
Assets == {AssetPool[i] : i \in 1..MaxLen}

\* The numbers an input file gives as current values and as goal percentages.
CurrentValues == {0, 9, 11}
GoalValues == {0, 45, 55, 100}

(* ------------------------- program constants -------------------------- *)

\* The required sum of the goal percentages, and the percentage scale.
HUNDRED == 100

\* Significant bits of a Python float (sys.float_info.mant_dig).
Precision == 53

(* ------------------------ fixed-point numerals ------------------------ *)

Base == 2 ^ LimbBits
Limbs == IntLimbs + FracLimbs

ZeroMag == [j \in 1..Limbs |-> 0]

\* The numeral of the natural number n < Base.
MagOfInt(n) == [j \in 1..Limbs |-> IF j = IntLimbs THEN n ELSE 0]

\* Digits that left the range 0..Base-1 are brought back, right to left.
Carry(s) ==
  LET c[j \in 1..Limbs] ==
        IF j = Limbs THEN 0 ELSE (s[j + 1] + c[j + 1]) \div Base
  IN  [j \in 1..Limbs |-> (s[j] + c[j]) % Base]

MagAdd(x, y) == Carry([j \in 1..Limbs |-> x[j] + y[j]])

\* x - y for x >= y.
MagSub(x, y) == Carry([j \in 1..Limbs |-> x[j] - y[j]])

\* x * k for a natural number k < 2048.
MagMul(x, k) == Carry([j \in 1..Limbs |-> x[j] * k])

MagLess(x, y) ==
  \E j \in 1..Limbs : x[j] < y[j] /\ \A i \in 1..(j - 1) : x[i] = y[i]

\* Long division of x by the natural number d, 0 < d < 2048: the quotient
\* truncated to the grid, and whether a remainder is left.
MagDiv(x, d) ==
  LET r[j \in 0..Limbs] ==
        IF j = 0 THEN 0 ELSE (r[j - 1] * Base + x[j]) % d
  IN  [quot |-> [j \in 1..Limbs |-> (r[j - 1] * Base + x[j]) \div d],
       inexact |-> r[Limbs] # 0]

\* Bit positions count from the least significant bit of the grid.
LimbOf(p) == Limbs - (p \div LimbBits)
OffsetOf(p) == p % LimbBits

BitLength(n) == CHOOSE b \in 1..LimbBits : 2 ^ (b - 1) <= n /\ n < 2 ^ b

TopLimb(x) == CHOOSE j \in 1..Limbs : x[j] # 0 /\ \A i \in 1..(j - 1) : x[i] = 0

\* The position of the leading one of x # 0.
TopBit(x) == (Limbs - TopLimb(x)) * LimbBits + BitLength(x[TopLimb(x)]) - 1

BitAt(x, p) == (x[LimbOf(p)] \div (2 ^ OffsetOf(p))) % 2

\* Some bit of x below position p is set.
AnyBelow(x, p) ==
  \/ x[LimbOf(p)] % (2 ^ OffsetOf(p)) # 0
  \/ \E j \in (LimbOf(p) + 1)..Limbs : x[j] # 0

\* x with the bits below position p cleared.
ClearBelow(x, p) ==
  [j \in 1..Limbs |->
     IF j < LimbOf(p) THEN x[j]
     ELSE IF j = LimbOf(p) THEN x[j] - (x[j] % (2 ^ OffsetOf(p)))
     ELSE 0]

\* The exact magnitude x (plus a nonzero remainder below the grid when
\* sticky) rounded to Precision significant bits, ties to even.
RoundMag(x, sticky) ==
  IF x = ZeroMag \/ TopBit(x) < Precision THEN x
  ELSE LET u == TopBit(x) - Precision + 1
           kept == ClearBelow(x, u)
           up == /\ BitAt(x, u - 1) = 1
                 /\ (AnyBelow(x, u - 1) \/ sticky \/ BitAt(x, u) = 1)
       IN  IF up
           THEN Carry([kept EXCEPT ![LimbOf(u)] = @ + 2 ^ OffsetOf(u)])
           ELSE kept

(* ------------------------------- floats ------------------------------- *)

Float(neg, mag) == [neg |-> neg /\ mag # ZeroMag, mag |-> mag]

\* float(n) for an integer n of the input.
FloatOfInt(n) == Float(n < 0, MagOfInt(IF n < 0 THEN -n ELSE n))

FZero == FloatOfInt(0)

\* x / d for a float (or integer) x and a positive integer d.
FDiv(x, d) ==
  LET q == MagDiv(x.mag, d) IN Float(x.neg, RoundMag(q.quot, q.inexact))

\* x * k for a float x and a natural number k.
FMul(x, k) == Float(x.neg, RoundMag(MagMul(x.mag, k), FALSE))

\* The exact sum of two signed magnitudes, before rounding.
ExactAdd(x, y) ==
  IF x.neg = y.neg THEN Float(x.neg, MagAdd(x.mag, y.mag))
  ELSE IF MagLess(x.mag, y.mag) THEN Float(y.neg, MagSub(y.mag, x.mag))
  ELSE Float(x.neg, MagSub(x.mag, y.mag))

FAdd(x, y) ==
  LET s == ExactAdd(x, y) IN Float(s.neg, RoundMag(s.mag, FALSE))

FNeg(x) == Float(~x.neg, x.mag)

FSub(x, y) == FAdd(x, FNeg(y))

\* x < y.
FLess(x, y) ==
  IF x.neg # y.neg THEN x.neg
  ELSE IF x.neg THEN MagLess(y.mag, x.mag)
  ELSE MagLess(x.mag, y.mag)

FPositive(x) == ~x.neg /\ x.mag # ZeroMag
FNegative(x) == x.neg

\* The number shown by a two-decimals format (f"{x:.2f}") or by round(x, 2):
\* the exact value rounded to hundredths, ties to even, with the sign of x.
Hundredths(x) ==
  LET y == MagMul(x.mag, HUNDRED)
      n == y[IntLimbs]
      first == y[IntLimbs + 1]
      rest == \E j \in (IntLimbs + 2)..Limbs : y[j] # 0
      half == Base \div 2
      up == \/ first > half
            \/ first = half /\ (rest \/ n % 2 = 1)
  IN  [neg |-> x.neg, cents |-> IF up THEN n + 1 ELSE n]

(* ------------------------------- dicts -------------------------------- *)

Keys(m) == [i \in 1..Len(m) |-> m[i][1]]
Values(m) == [i \in 1..Len(m) |-> m[i][2]]
KeySet(m) == {m[i][1] : i \in 1..Len(m)}
HasKey(m, k) == \E i \in 1..Len(m) : m[i][1] = k

\* m[k] for a key k of m.
Get(m, k) == m[CHOOSE i \in 1..Len(m) : m[i][1] = k][2]

Min(a, b) == IF a < b THEN a ELSE b

\* sum(...) over integers.
RECURSIVE SumInts(_)
SumInts(s) == IF s = <<>> THEN 0 ELSE s[1] + SumInts(Tail(s))

\* sum(...) over floats: from the integer 0, left to right, each addition
\* rounded.
RECURSIVE SumFloatsFrom(_, _)
SumFloatsFrom(acc, s) ==
  IF s = <<>> THEN acc ELSE SumFloatsFrom(FAdd(acc, s[1]), Tail(s))

SumFloats(s) == SumFloatsFrom(FZero, s)

(* --------------------------- the input space -------------------------- *)

\* Sequences of at most MaxLen distinct asset names.
KeyOrders ==
  {k \in UNION {[1..n -> Assets] : n \in 0..MaxLen} :
     \A i, j \in 1..Len(k) : i # j => k[i] # k[j]}

\* The mappings of the goal percentages: any keys in any order.
GoalMappings ==
  UNION {{[i \in 1..Len(k) |-> <<k[i], v[i]>>] :
            v \in [1..Len(k) -> GoalValues]} : k \in KeyOrders}

\* The mappings of the current values.  Asset names are interchangeable, so
\* the keys are taken in the order of the pool; the goal mapping's keys and
\* their order vary against them.
CurrentMappings ==
  UNION {{[i \in 1..n |-> <<AssetPool[i], v[i]>>] :
            v \in [1..n -> CurrentValues]} : n \in 0..MaxLen}

\* A JSON document that is an object with the two keys, and one that is not
\* an object.
Portfolio(c, g) ==
  [is_dict |-> TRUE, current_value |-> c, goal_percentage |-> g]
NotADict == [is_dict |-> FALSE, current_value |-> <<>>, goal_percentage |-> <<>>]

Portfolios == {Portfolio(c, g) : c \in CurrentMappings, g \in GoalMappings}

(* ------------------------- the pure functions ------------------------- *)

NoError == ""

\* A variant that rejects only a sum above 100.
check_goal_percentage_upper(d) ==
  IF SumInts(Values(d.goal_percentage)) > HUNDRED
  THEN "GoalPercentageError" ELSE NoError

\* check_goal_percentage(data): the exception raised, if any.
check_goal_percentage(d) ==
  LET goal_perc_total == SumInts(Values(d.goal_percentage))
  IN  IF goal_perc_total # HUNDRED THEN "GoalPercentageError" ELSE NoError

\* A variant that returns a mapping without checking it.
read_json_unchecked(doc) ==
  IF doc.is_dict THEN [error |-> NoError, value |-> doc]
  ELSE [error |-> "ValueError", value |-> NotADict]

\* read_json, on the document json.load returned.
read_json(doc) ==
  IF doc.is_dict
  THEN IF check_goal_percentage(doc) # NoError
       THEN [error |-> check_goal_percentage(doc), value |-> NotADict]
       ELSE [error |-> NoError, value |-> doc]
  ELSE [error |-> "ValueError", value |-> NotADict]

\* A variant that divides with "//".
calculate_current_percentage_floor(d) ==
  IF ~d.is_dict THEN [error |-> "TypeError", value |-> <<>>]
  ELSE LET cv == d.current_value
           current_total == SumInts(Values(cv))
       IN  IF cv # <<>> /\ current_total = 0
           THEN [error |-> "ZeroDivisionError", value |-> <<>>]
           ELSE [error |-> NoError,
                 value |-> [i \in 1..Len(cv) |->
                    <<cv[i][1],
                      FloatOfInt((cv[i][2] \div current_total) * HUNDRED)>>]]

\* A variant that returns no percentages for a total of zero.
calculate_current_percentage_guarded(d) ==
  IF ~d.is_dict THEN [error |-> "TypeError", value |-> <<>>]
  ELSE LET cv == d.current_value
           current_total == SumInts(Values(cv))
       IN  IF current_total = 0
           THEN [error |-> NoError, value |-> <<>>]
           ELSE [error |-> NoError,
                 value |-> [i \in 1..Len(cv) |->
                    <<cv[i][1],
                      FMul(FDiv(FloatOfInt(cv[i][2]), current_total), HUNDRED)>>]]

\* calculate_current_percentage(data).
calculate_current_percentage(d) ==
  IF ~d.is_dict THEN [error |-> "TypeError", value |-> <<>>]
  ELSE LET cv == d.current_value
           current_total == SumInts(Values(cv))
       IN  IF cv # <<>> /\ current_total = 0
           THEN [error |-> "ZeroDivisionError", value |-> <<>>]
           ELSE [error |-> NoError,
                 value |-> [i \in 1..Len(cv) |->
                    <<cv[i][1],
                      FMul(FDiv(FloatOfInt(cv[i][2]), current_total), HUNDRED)>>]]

\* A cell of the table: a number formatted with two decimals, or "-".
Cell(x) == [dash |-> FALSE, neg |-> Hundredths(x).neg, cents |-> Hundredths(x).cents]
Dash == [dash |-> TRUE, neg |-> FALSE, cents |-> 0]

\* create_table(current_percentages, goal_percentages, total_value): the
\* rows of the table below its header.
create_table(current_percentages, goal_percentages, total_value) ==
  LET asset_names == Keys(current_percentages)
      current_percs == Values(current_percentages)
      current_values == [i \in 1..Len(current_percs) |->
                           FMul(FDiv(current_percs[i], HUNDRED), total_value)]
      goal_percs == [i \in 1..Len(goal_percentages) |->
                       FloatOfInt(goal_percentages[i][2])]
      goal_values == [i \in 1..Len(goal_percs) |->
                        FMul(FDiv(goal_percs[i], HUNDRED), total_value)]
      zipped == Min(Len(current_percs), Len(goal_percs))
      diff_percs == [i \in 1..zipped |-> FSub(current_percs[i], goal_percs[i])]
      diff_values == [i \in 1..zipped |-> FSub(current_values[i], goal_values[i])]
      rows == [i \in 1..zipped |->
                 [asset |-> asset_names[i],
                  curr_perc |-> Cell(current_percs[i]),
                  curr_value |-> Cell(current_values[i]),
                  goal_perc |-> Cell(goal_percs[i]),
                  goal_value |-> Cell(goal_values[i]),
                  diff_perc |-> Cell(diff_percs[i]),
                  diff_value |-> Cell(diff_values[i])]]
      total_current_perc == SumFloats(current_percs)
      total_current_value == SumFloats(current_values)
  IN  Append(rows,
             [asset |-> "Total Portfolio",
              curr_perc |-> Cell(total_current_perc),
              curr_value |-> Cell(total_current_value),
              goal_perc |-> Dash, goal_value |-> Dash,
              diff_perc |-> Dash, diff_value |-> Dash])

\* A variant whose sort is not stable: an entry goes before its equals.
InsertByKeyUnstable(sorted, e) ==
  LET after == {i \in 1..Len(sorted) : ~FLess(sorted[i].key, e.key)}
      at == IF after = {} THEN Len(sorted) + 1
            ELSE CHOOSE i \in after : \A j \in after : i <= j
  IN  SubSeq(sorted, 1, at - 1) \o <<e>> \o SubSeq(sorted, at, Len(sorted))

\* The pairs (asset, difference) of a list in the order list.sort(key=...)
\* leaves them: ascending by key, and stable, so that of two entries with
\* equal keys the one appended first stays first.  An entry is
\* [asset, difference, key].
InsertByKey(sorted, e) ==
  LET after == {i \in 1..Len(sorted) : FLess(e.key, sorted[i].key)}
      at == IF after = {} THEN Len(sorted) + 1
            ELSE CHOOSE i \in after : \A j \in after : i <= j
  IN  SubSeq(sorted, 1, at - 1) \o <<e>> \o SubSeq(sorted, at, Len(sorted))

RECURSIVE SortByKeyFrom(_, _)
SortByKeyFrom(sorted, rest) ==
  IF rest = <<>> THEN sorted
  ELSE SortByKeyFrom(InsertByKey(sorted, rest[1]), Tail(rest))

SortByKey(list) == SortByKeyFrom(<<>>, list)

\* The differences suggest_action computes, in the iteration order of
\* current_percentages: goal_percentages[asset] - current_percentages[asset].
Differences(current_percentages, goal_percentages) ==
  [i \in 1..Len(current_percentages) |->
     [asset |-> current_percentages[i][1],
      difference |-> FSub(FloatOfInt(Get(goal_percentages,
                                         current_percentages[i][1])),
                          current_percentages[i][2])]]

\* A variant that buys at a difference of zero too.
IsBuyOrEqual(e) == ~FNegative(e.difference)

\* Lines 276-279: an asset goes to overall_buy when its difference is > 0
\* and to overall_sell when it is < 0, in the order of the loop.
IsBuy(e) == FPositive(e.difference)
IsSell(e) == FNegative(e.difference)

RECURSIVE Appended(_, _)
Appended(diffs, buying) ==
  IF diffs = <<>> THEN <<>>
  ELSE (IF (buying /\ IsBuy(diffs[1])) \/ (~buying /\ IsSell(diffs[1]))
        THEN <<diffs[1]>> ELSE <<>>) \o Appended(Tail(diffs), buying)

\* A variant that sorts the sells like the buys.
SellKeyedNegated(e) == [asset |-> e.asset, difference |-> e.difference,
                        key |-> FNeg(e.difference)]

\* overall_buy sorted by -difference, overall_sell sorted by difference.
BuyKeyed(e) == [asset |-> e.asset, difference |-> e.difference,
                key |-> FNeg(e.difference)]
SellKeyed(e) == [asset |-> e.asset, difference |-> e.difference,
                 key |-> e.difference]

NoSuggestion == [given |-> FALSE, asset |-> "", amount |-> Hundredths(FZero)]

\* suggest_action(current_percentages, goal_percentages).  The returned text
\* is "Invest in <asset> to increase allocation by <amount>%" or "No
\* suggestion to buy", then "Stop investing in <asset> to decrease allocation
\* by <amount>%" or "No suggestion to sell": modelled by its two parts.  The
\* per-asset text of lines 281-288 is built and dropped.
suggest_action(current_percentages, goal_percentages) ==
  IF \E i \in 1..Len(current_percentages) :
        ~HasKey(goal_percentages, current_percentages[i][1])
  THEN [error |-> "KeyError", value |-> [buy |-> NoSuggestion, sell |-> NoSuggestion]]
  ELSE LET diffs == Differences(current_percentages, goal_percentages)
           buys == Appended(diffs, TRUE)
           sells == Appended(diffs, FALSE)
           overall_buy == SortByKey([i \in 1..Len(buys) |-> BuyKeyed(buys[i])])
           overall_sell == SortByKey([i \in 1..Len(sells) |-> SellKeyed(sells[i])])
           buy_message ==
             IF overall_buy # <<>>
             THEN [given |-> TRUE, asset |-> overall_buy[1].asset,
                   amount |-> Hundredths(overall_buy[1].difference)]
             ELSE NoSuggestion
           sell_message ==
             IF overall_sell # <<>>
             THEN [given |-> TRUE, asset |-> overall_sell[1].asset,
                   amount |-> Hundredths(FNeg(overall_sell[1].difference))]
             ELSE NoSuggestion
       IN  [error |-> NoError,
            value |-> [buy |-> buy_message, sell |-> sell_message]]

\* Lines 178-183 of plot_pie_chart: the labels, the total value and the sizes
\* of the goal pie, goal_percentages[asset] / 100 * total_value per label.
goal_sizes_of(d) ==
  LET labels == Keys(d.current_value)
      total_value == SumInts(Values(d.current_value))
  IN  IF \E i \in 1..Len(labels) : ~HasKey(d.goal_percentage, labels[i])
      THEN [error |-> "KeyError", value |-> <<>>]
      ELSE [error |-> NoError,
            value |-> [i \in 1..Len(labels) |->
               FMul(FDiv(FloatOfInt(Get(d.goal_percentage, labels[i])), HUNDRED),
                    total_value)]]

\* The current percentages a direct call passes: the numbers as given.
AsFloats(m) == [i \in 1..Len(m) |-> <<m[i][1], FloatOfInt(m[i][2])>>]

(* --------------------------- the state machine ------------------------ *)

VARIABLES
  entry,                \* the function the run calls
  input,                \* the JSON document of the file, or the arguments
  pc,                   \* where the run is
  data,                 \* main's data
  current_percentages,  \* the result of calculate_current_percentage
  goal_sizes,           \* the sizes of the goal pie
  table,                \* the rows create_table returned
  action_suggestion,    \* the result of suggest_action
  error,                \* the exception that ended the run, if any
  shown,                \* how many times fig.show() ran
  events                \* the steps taken, in order

vars == <<entry, input, pc, data, current_percentages, goal_sizes, table,
          action_suggestion, error, shown, events>>

NoAction == [buy |-> NoSuggestion, sell |-> NoSuggestion]

Entries == {"main", "calculate_current_percentage", "create_table", "suggest_action"}

\* main reads any document; calculate_current_percentage is called with any
\* document (its goal percentages play no part); create_table and
\* suggest_action are called with any two mappings.
Init ==
  /\ entry \in Entries
  /\ input \in Portfolios \cup {NotADict}
  /\ entry \in {"create_table", "suggest_action"} => input.is_dict
  /\ entry = "calculate_current_percentage" => input.goal_percentage = <<>>
  /\ pc = "start"
  /\ data = NotADict
  /\ current_percentages = <<>>
  /\ goal_sizes = <<>>
  /\ table = <<>>
  /\ action_suggestion = NoAction
  /\ error = NoError
  /\ shown = 0
  /\ events = <<>>

\* An exception ends the run: nothing catches it.
Fail(name, step) ==
  /\ pc' = "error"
  /\ error' = name
  /\ events' = Append(events, step)

Step(to, step) ==
  /\ pc' = to
  /\ error' = error
  /\ events' = Append(events, step)

\* main, line 312: data = read_json("investments.json").
CallReadJson ==
  /\ entry = "main" /\ pc = "start"
  /\ LET r == read_json(input)
     IN  IF r.error # NoError
         THEN Fail(r.error, "read_json") /\ data' = data
         ELSE Step("loaded", "read_json") /\ data' = r.value
  /\ UNCHANGED <<entry, input, current_percentages, goal_sizes, table,
                 action_suggestion, shown>>

\* plot_pie_chart, line 177, or a direct call.
CallCalculateCurrentPercentage ==
  /\ \/ entry = "main" /\ pc = "loaded"
     \/ entry = "calculate_current_percentage" /\ pc = "start"
  /\ LET r == calculate_current_percentage(IF entry = "main" THEN data ELSE input)
     IN  IF r.error # NoError
         THEN Fail(r.error, "calculate_current_percentage")
              /\ current_percentages' = current_percentages
         ELSE Step(IF entry = "main" THEN "calculated" ELSE "returned",
                   "calculate_current_percentage")
              /\ current_percentages' = r.value
  /\ UNCHANGED <<entry, input, data, goal_sizes, table, action_suggestion, shown>>

\* plot_pie_chart, lines 178-219: the two pies.  The colours, drawn at random
\* one per label, reach no value of the model.
BuildPies ==
  /\ entry = "main" /\ pc = "calculated"
  /\ LET r == goal_sizes_of(data)
     IN  IF r.error # NoError
         THEN Fail(r.error, "goal_sizes") /\ goal_sizes' = goal_sizes
         ELSE Step("pies", "goal_sizes") /\ goal_sizes' = r.value
  /\ UNCHANGED <<entry, input, data, current_percentages, table,
                 action_suggestion, shown>>

\* plot_pie_chart, line 221, or a direct call (with the sum of the numbers
\* passed as total_value, as plot_pie_chart passes it).
CallCreateTable ==
  /\ \/ entry = "main" /\ pc = "pies"
     \/ entry = "create_table" /\ pc = "start"
  /\ table' =
       IF entry = "main"
       THEN create_table(current_percentages, data.goal_percentage,
                         SumInts(Values(data.current_value)))
       ELSE create_table(AsFloats(input.current_value), input.goal_percentage,
                         SumInts(Values(input.current_value)))
  /\ Step(IF entry = "main" THEN "tabled" ELSE "returned", "create_table")
  /\ UNCHANGED <<entry, input, data, current_percentages, goal_sizes,
                 action_suggestion, shown>>

\* plot_pie_chart, line 225, or a direct call.
CallSuggestAction ==
  /\ \/ entry = "main" /\ pc = "tabled"
     \/ entry = "suggest_action" /\ pc = "start"
  /\ LET r == IF entry = "main"
              THEN suggest_action(current_percentages, data.goal_percentage)
              ELSE suggest_action(AsFloats(input.current_value),
                                  input.goal_percentage)
     IN  IF r.error # NoError
         THEN Fail(r.error, "suggest_action")
              /\ action_suggestion' = action_suggestion
         ELSE Step(IF entry = "main" THEN "suggested" ELSE "returned",
                   "suggest_action")
              /\ action_suggestion' = r.value
  /\ UNCHANGED <<entry, input, data, current_percentages, goal_sizes, table, shown>>

\* plot_pie_chart, lines 227-254: the layout, then fig.show().
FigShow ==
  /\ entry = "main" /\ pc = "suggested"
  /\ shown' = shown + 1
  /\ Step("done", "fig.show")
  /\ UNCHANGED <<entry, input, data, current_percentages, goal_sizes, table,
                 action_suggestion>>

Next ==
  \/ CallReadJson
  \/ CallCalculateCurrentPercentage
  \/ BuildPies
  \/ CallCreateTable
  \/ CallSuggestAction
  \/ FigShow

Spec == Init /\ [][Next]_vars

(* ------------------------- notions of the claims ---------------------- *)

\* The arguments of the calls.
CalcArg == IF entry = "main" THEN data ELSE input
CurArg == IF entry = "main" THEN current_percentages
          ELSE AsFloats(input.current_value)
GoalArg == input.goal_percentage

\* Where calculate_current_percentage stands in the run.
CalcIndex == IF entry = "main" THEN 2 ELSE 1
CalcCalled ==
  /\ entry \in {"main", "calculate_current_percentage"}
  /\ Len(events) >= CalcIndex
CalcRaised == CalcCalled /\ Len(events) = CalcIndex /\ pc = "error"
CalcReturned == CalcCalled /\ ~CalcRaised

CurrentTotal == SumInts(Values(CalcArg.current_value))

SuggestReturned ==
  \/ entry = "suggest_action" /\ pc = "returned"
  \/ entry = "main" /\ pc \in {"suggested", "done"}
TableReturned ==
  \/ entry = "create_table" /\ pc = "returned"
  \/ entry = "main" /\ pc \in {"tabled", "suggested", "done"}

SameKeys == KeySet(CurArg) = KeySet(GoalArg)

\* goal - current of an asset, as a float.
DiffOf(a) == FSub(FloatOfInt(Get(GoalArg, a)), Get(CurArg, a))
Abs(x) == Float(FALSE, x.mag)
FLeq(x, y) == ~FLess(y, x)
IndexOf(a) == CHOOSE i \in 1..Len(CurArg) : CurArg[i][1] = a

\* The magnitude 2^p of the grid, and the distance of two magnitudes.
MagPowerOfTwo(p) ==
  [j \in 1..Limbs |-> IF j = LimbOf(p) THEN 2 ^ OffsetOf(p) ELSE 0]
MagDistance(x, y) == IF MagLess(x, y) THEN MagSub(y, x) ELSE MagSub(x, y)

RECURSIVE ExactSum(_)
ExactSum(s) == IF s = <<>> THEN ZeroMag ELSE MagAdd(s[1].mag, ExactSum(Tail(s)))

\* The rounding tolerance of a percentage: 2^-45, above 100 * 2^-52.
Tolerance == MagPowerOfTwo(LimbBits * FracLimbs - 45)

(* ------------------------------- C1 ----------------------------------- *)

\* C1 as stated (refuted): when calculate_current_percentage returns for
\* non-negative current values with a positive total, its keys are those of
\* current_value, each percentage equals value / total * 100 exactly and
\* the percentages sum to exactly 100.
C1_ExactPercentages ==
  (CalcReturned /\ CurrentTotal > 0) =>
    /\ Keys(current_percentages) = Keys(CalcArg.current_value)
    /\ \A i \in 1..Len(current_percentages) :
         MagMul(current_percentages[i][2].mag, CurrentTotal)
           = MagOfInt(HUNDRED * CalcArg.current_value[i][2])
    /\ ExactSum(Values(current_percentages)) = MagOfInt(HUNDRED)

\* C1 as amended: when calculate_current_percentage returns for non-negative
\* integer current values with a positive total, its keys are those of
\* current_value in the same order, each percentage is a non-negative float
\* within 2^-45 of value / total * 100, and the percentages sum to 100
\* within 2^-45.
C1_PercentagesWithinTolerance ==
  (CalcReturned /\ CurrentTotal > 0) =>
    /\ Keys(current_percentages) = Keys(CalcArg.current_value)
    /\ \A i \in 1..Len(current_percentages) :
         /\ ~current_percentages[i][2].neg
         /\ ~MagLess(MagMul(Tolerance, CurrentTotal),
                     MagDistance(MagMul(current_percentages[i][2].mag, CurrentTotal),
                                 MagOfInt(HUNDRED * CalcArg.current_value[i][2])))
    /\ ~MagLess(Tolerance,
                MagDistance(ExactSum(Values(current_percentages)),
                            MagOfInt(HUNDRED)))

\* C1's case: two assets with positive values, one percentage not exact.
C1_Witness ==
  /\ CalcReturned /\ CurrentTotal > 0
  /\ Len(current_percentages) = 2
  /\ \A i \in 1..2 : CalcArg.current_value[i][2] > 0
  /\ ExactSum(Values(current_percentages)) # MagOfInt(HUNDRED)

(* ------------------------------- C2 ----------------------------------- *)

SomeDifference == \E a \in KeySet(CurArg) : DiffOf(a) # FZero

\* The assets the suggestion names.
Named ==
  {x.asset : x \in {y \in {action_suggestion.buy, action_suggestion.sell} : y.given}}

\* C2 as stated (refuted): over one key set with some non-zero difference,
\* the suggestion names a single asset, and it is the asset whose absolute
\* difference is the largest.
C2_SingleMaxAbs ==
  (SuggestReturned /\ SameKeys /\ SomeDifference) =>
    /\ Cardinality(Named) = 1
    /\ \A a \in Named : \A b \in KeySet(CurArg) : FLeq(Abs(DiffOf(b)), Abs(DiffOf(a)))

\* C2 as amended: over one key set with some non-zero difference, the
\* suggestion names one or two assets: as the buy, an asset with the largest
\* positive difference if any difference is positive, and as the sell, an
\* asset with the most negative difference if any is negative; an asset with
\* the largest absolute difference is always among those named.
C2_NamesExtremes ==
  (SuggestReturned /\ SameKeys /\ SomeDifference) =>
    /\ action_suggestion.buy.given <=> \E a \in KeySet(CurArg) : FPositive(DiffOf(a))
    /\ action_suggestion.sell.given <=> \E a \in KeySet(CurArg) : FNegative(DiffOf(a))
    /\ action_suggestion.buy.given =>
         /\ action_suggestion.buy.asset \in KeySet(CurArg)
         /\ \A b \in KeySet(CurArg) :
              FLeq(DiffOf(b), DiffOf(action_suggestion.buy.asset))
    /\ action_suggestion.sell.given =>
         /\ action_suggestion.sell.asset \in KeySet(CurArg)
         /\ \A b \in KeySet(CurArg) :
              FLeq(DiffOf(action_suggestion.sell.asset), DiffOf(b))
    /\ \E a \in Named : \A b \in KeySet(CurArg) : FLeq(Abs(DiffOf(b)), Abs(DiffOf(a)))

\* C2's case: a buy and a sell are both named, for different assets.
C2_Witness ==
  /\ SuggestReturned /\ SameKeys
  /\ action_suggestion.buy.given /\ action_suggestion.sell.given
  /\ action_suggestion.buy.asset # action_suggestion.sell.asset

(* ------------------------------- C3 ----------------------------------- *)

ReadJsonCalled == entry = "main" /\ events # <<>>
ReadJsonRaised == ReadJsonCalled /\ Len(events) = 1 /\ pc = "error"

C4_DirectionFollowsSign ==
  SuggestReturned =>
    /\ action_suggestion.buy.given =>
         /\ FPositive(DiffOf(action_suggestion.buy.asset))
         /\ action_suggestion.buy.amount
              = Hundredths(DiffOf(action_suggestion.buy.asset))
    /\ action_suggestion.sell.given =>
         /\ FNegative(DiffOf(action_suggestion.sell.asset))
         /\ action_suggestion.sell.amount
              = Hundredths(Abs(DiffOf(action_suggestion.sell.asset)))
    /\ (\E a \in KeySet(CurArg) : FPositive(DiffOf(a))) => action_suggestion.buy.given
    /\ (\E a \in KeySet(CurArg) : FNegative(DiffOf(a))) => action_suggestion.sell.given
    /\ (\A a \in KeySet(CurArg) : DiffOf(a) = FZero) => action_suggestion = NoAction

\* C4's case: two assets, both exactly at their goals, and nothing suggested.
C4_Witness ==
  /\ SuggestReturned
  /\ Len(CurArg) = 2
  /\ \A a \in KeySet(CurArg) : DiffOf(a) = FZero
  /\ action_suggestion = NoAction

(* ------------------------------- C5 ----------------------------------- *)

\* C5 as stated (refuted): calculate_current_percentage raises, and returns
\* nothing, when the current values sum to zero (an empty portfolio
\* included) and when its input is not a mapping.
C5_FailsOnZeroTotal ==
  (CalcCalled /\ (~CalcArg.is_dict \/ CurrentTotal = 0)) => CalcRaised

\* C5 as amended: calculate_current_percentage raises TypeError when its
\* input is not a mapping and ZeroDivisionError when the portfolio has at
\* least one asset and its current values sum to zero, returning nothing in
\* both cases; for an empty portfolio it returns the empty mapping.
C5_FailsOnZeroTotalUnlessEmpty ==
  CalcCalled =>
    /\ ~CalcArg.is_dict => CalcRaised /\ error = "TypeError"
    /\ (CalcArg.is_dict /\ CalcArg.current_value # <<>> /\ CurrentTotal = 0) =>
         CalcRaised /\ error = "ZeroDivisionError"
    /\ CalcRaised => current_percentages = <<>>
    /\ (CalcArg.is_dict /\ CalcArg.current_value = <<>>) =>
         CalcReturned /\ current_percentages = <<>>

\* C5's case: two assets worth nothing, and the division by zero.
C5_Witness ==
  /\ CalcRaised /\ error = "ZeroDivisionError"
  /\ Len(CalcArg.current_value) = 2

(* ------------------------------- C6 ----------------------------------- *)

SuggestCalled ==
  \/ entry = "suggest_action" /\ events # <<>>
  \/ entry = "main" /\ Len(events) >= 5

\* C6 as stated (refuted by the code): when an asset of the current
\* percentages is absent from the goal mapping, suggest_action takes its goal
\* as 0 and returns a suggestion.
C6_AbsentGoalIsZero ==
  (SuggestCalled /\ \E a \in KeySet(CurArg) : ~HasKey(GoalArg, a)) =>
    /\ SuggestReturned
    /\ \A a \in KeySet(CurArg) :
         (~HasKey(GoalArg, a) /\ FPositive(Get(CurArg, a))) =>
           action_suggestion.sell.given

(* ------------------------------- C7 ----------------------------------- *)

MainSteps == <<"read_json", "calculate_current_percentage", "goal_sizes",
               "create_table", "suggest_action", "fig.show">>

\* C7: fig.show runs at most once, and only at the end of a run of main that
\* loaded a mapping, passed the goal-sum check and computed the percentages,
\* each step taken once and in order; a run that raised has rendered nothing,
\* took no step after the one that raised, and repeats none.
C7_RenderOnceAfterPipeline ==
  /\ shown \in {0, 1}
  /\ shown = 1 =>
       /\ entry = "main" /\ pc = "done" /\ error = NoError
       /\ events = MainSteps
       /\ data = input /\ data.is_dict
       /\ SumInts(Values(data.goal_percentage)) = HUNDRED
       /\ calculate_current_percentage(data).error = NoError
       /\ current_percentages = calculate_current_percentage(data).value
  /\ entry = "main" => events = SubSeq(MainSteps, 1, Len(events))
  /\ pc = "error" <=> error # NoError
  /\ pc = "error" => shown = 0
  /\ (entry = "main" /\ pc # "error") =>
       pc = <<"start", "loaded", "calculated", "pies", "tabled", "suggested",
              "done">>[Len(events) + 1]

\* C7's case: a run of main that rendered.
C7_Witness == shown = 1 /\ Len(data.current_value) = 2

(* ------------------------------- C8 ----------------------------------- *)

\* C8: the buy named is the first asset, in the iteration order of
\* current_percentages, whose difference is the largest positive one, and the
\* sell named is the first whose difference is the most negative one.
C8_TiesFirstEncountered ==
  SuggestReturned =>
    /\ action_suggestion.buy.given =>
         \A b \in KeySet(CurArg) :
           /\ FLeq(DiffOf(b), DiffOf(action_suggestion.buy.asset))
           /\ DiffOf(b) = DiffOf(action_suggestion.buy.asset) =>
                IndexOf(action_suggestion.buy.asset) <= IndexOf(b)
    /\ action_suggestion.sell.given =>
         \A b \in KeySet(CurArg) :
           /\ FLeq(DiffOf(action_suggestion.sell.asset), DiffOf(b))
           /\ DiffOf(b) = DiffOf(action_suggestion.sell.asset) =>
                IndexOf(action_suggestion.sell.asset) <= IndexOf(b)

\* C8's case: two assets tie for the largest positive difference.
C8_Witness ==
  /\ SuggestReturned /\ Len(CurArg) = 2
  /\ action_suggestion.buy.given
  /\ DiffOf(CurArg[1][1]) = DiffOf(CurArg[2][1])
  /\ action_suggestion.buy.asset = CurArg[1][1]

(* ------------------------------- C9 ----------------------------------- *)

\* C9 as stated (refuted by the code): for a portfolio that passed the
\* goal-sum check and whose two mappings have the same keys, the suggestion
\* has a buy if and only if it has a sell.
C9_BuyIffSell ==
  (entry = "main" /\ SuggestReturned /\ SameKeys) =>
    (action_suggestion.buy.given <=> action_suggestion.sell.given)

(* ------------------------------- C10 ---------------------------------- *)

\* C10 as stated (refuted by the code): the table has one row per asset of
\* current_percentages and then the 'Total Portfolio' row, and the row of an
\* asset shows the goal percentage, the goal value and the difference of that
\* asset, whatever the order of the keys and the sizes of the two mappings.
C10_RowsMatchAssets ==
  TableReturned =>
    /\ Len(table) = Len(CurArg) + 1
    /\ table[Len(table)].asset = "Total Portfolio"
    /\ \A i \in 1..Len(CurArg) :
         (i < Len(table) /\ HasKey(GoalArg, CurArg[i][1])) =>
           LET a == CurArg[i][1]
               goal == FloatOfInt(Get(GoalArg, a))
               total == SumInts(Values(input.current_value))
           IN  /\ table[i].asset = a
               /\ table[i].goal_perc = Cell(goal)
               /\ table[i].goal_value = Cell(FMul(FDiv(goal, HUNDRED), total))
               /\ table[i].diff_perc = Cell(FSub(CurArg[i][2], goal))
====
